---- MODULE Spec2Model ----
(***************************************************************************)
(* Koopman checksums (int08h/koopman-checksum, src/src/lib.rs): the        *)
(* one-shot functions, the fast fixed-modulus reductions and the streaming *)
(* hashers.                                                                *)
(*                                                                         *)
(* Machine integers.  TLC's integers are 32-bit signed, the program's      *)
(* accumulators are u32 and u64.  A u32 is a sequence of two 16-bit limbs, *)
(* a u64 a sequence of four, least significant limb first; every operator  *)
(* below wraps at the width of its operand as the machine operation does.  *)
(* u8 and u16 values are plain integers.                                   *)
(***************************************************************************)
EXTENDS Integers, Sequences, FiniteSets, TLC

\* radix of the limb representation, 2^16
Limb == 65536

\* number of limbs of a u32 / of a u64
W32 == 2
W64 == 4

\* the w-limb machine integer of the natural number n < 2^31
U(n, w) == [i \in 1..w |-> IF i = 1 THEN n % Limb ELSE IF i = 2 THEN n \div Limb ELSE 0]

\* carry propagation over a sequence of 2 to 5 integers; the carry out of the
\* top limb is dropped
Norm(v) ==
  LET a1 == v[1]
      a2 == v[2] + (a1 \div Limb)
      a3 == v[3] + (a2 \div Limb)
      a4 == v[4] + (a3 \div Limb)
      a5 == v[5] + (a4 \div Limb)
  IN  CASE Len(v) = 2 -> <<a1 % Limb, a2 % Limb>>
        [] Len(v) = 3 -> <<a1 % Limb, a2 % Limb, a3 % Limb>>
        [] Len(v) = 4 -> <<a1 % Limb, a2 % Limb, a3 % Limb, a4 % Limb>>
        [] Len(v) = 5 -> <<a1 % Limb, a2 % Limb, a3 % Limb, a4 % Limb, a5 % Limb>>

\* x << 8 at the width of x (the bits shifted out are lost, without a fault)
Shl8(x) == Norm([i \in 1..Len(x) |-> x[i] * 256])

\* x << 1 at the width of x
Shl1(x) == Norm([i \in 1..Len(x) |-> x[i] * 2])

\* x + y at the width of x (wrapping)
Add(x, y) == Norm([i \in 1..Len(x) |-> x[i] + y[i]])

\* x - y at the width of x (wrapping)
Sub(x, y) == Norm([i \in 1..Len(x) |-> x[i] - y[i]])

\* x * k for a small constant k, at the width of x
MulSmall(x, k) == Norm([i \in 1..Len(x) |-> x[i] * k])

RECURSIVE LtFrom(_, _, _)
LtFrom(x, y, i) ==
  IF i = 0 THEN FALSE
  ELSE IF x[i] # y[i] THEN x[i] < y[i]
  ELSE LtFrom(x, y, i - 1)

\* x < y, x >= y
Lt(x, y) == LtFrom(x, y, Len(x))
Geq(x, y) == ~Lt(x, y)

\* zero extension / truncation to w limbs (`as u64`, `as u32`)
Cast(x, w) == [i \in 1..w |-> IF i <= Len(x) THEN x[i] ELSE 0]

\* the value fits a TLC integer
Small(x) == x[2] < 32768 /\ \A i \in 3..Len(x) : x[i] = 0
ToInt(x) == x[2] * Limb + x[1]

\* remainder by restoring division: x mod m = (x mod 2m) mod m
RECURSIVE Rem(_, _)
Rem(x, m) ==
  IF Lt(x, m) THEN x
  ELSE LET r == Rem(x, Shl1(m))
       IN  IF Lt(r, m) THEN r ELSE Sub(r, m)

\* x % m at the width of x, m # 0
Mod(x, m) ==
  IF Small(x) /\ Small(m)
    THEN U(ToInt(x) % ToInt(m), Len(x))
    ELSE Cast(Rem(Cast(x, Len(x) + 1), Cast(m, Len(x) + 1)), Len(x))

\* `as u8`, `as u16`, `as u32` of an accumulator
AsU8(x) == x[1] % 256
AsU16(x) == x[1]
\* `as u16 as u32`: the low 16 bits only
AsU32_low_half(x) == <<x[1], 0>>

AsU32(x) == Cast(x, W32)

RECURSIVE XorBits(_, _, _)
XorBits(a, b, n) ==
  IF n = 0 THEN 0
  ELSE ((a + b) % 2) + 2 * XorBits(a \div 2, b \div 2, n - 1)

\* a ^ b on bytes
Xor8(a, b) == XorBits(a, b, 8)

\* x ^ (b as the type of x), b a byte
XorByte(x, b) == [x EXCEPT ![1] = XorBits(x[1], b, 16)]

\* TRUE; makes TLC evaluate x at this point of a loop instead of building a
\* chain of unevaluated accumulators as deep as the data is long
Eval(x) == x = x

RECURSIVE count_ones(_)
count_ones(x) == IF x = 0 THEN 0 ELSE (x % 2) + count_ones(x \div 2)


(***************************************************************************)
(* Constants (lib.rs 13-34)                                                *)
(***************************************************************************)
\* the modulus 2^8 - 1 in the place of 253
MODULUS_8_all_ones == 2^8 - 1

MODULUS_8 == 253
MODULUS_16 == 65519
\* 4294967291 = 2^32 - 5 as a u64
MODULUS_32 == <<65531, 65535, 0, 0>>
MODULUS_7P == 125
MODULUS_15P == 32749
MODULUS_31P == 2147483629

NONZERO_MODULUS_8 == U(MODULUS_8, W32)
NONZERO_MODULUS_16 == U(MODULUS_16, W32)
NONZERO_MODULUS_32 == MODULUS_32
NONZERO_MODULUS_7P == U(MODULUS_7P, W32)
NONZERO_MODULUS_15P == U(MODULUS_15P, W32)
NONZERO_MODULUS_31P == U(MODULUS_31P, W64)

(***************************************************************************)
(* Fast modular reduction                                                  *)
(***************************************************************************)

\* fast_mod_65519 with a single fold: the value hi * 17 + lo
fast_mod_65519_one_fold(x) == x[2] * 17 + x[1]

\* the value r2 of fast_mod_65519 before its final conditional subtraction
fast_mod_65519_r2(x) ==
  LET hi == x[2]
      lo == x[1]
      r == hi * 17 + lo
      hi2 == r \div Limb
      lo2 == r % Limb
  IN  hi2 * 17 + lo2

\* fn fast_mod_65519(x: u32) -> u32
fast_mod_65519(x) ==
  LET r2 == fast_mod_65519_r2(x)
  IN  U(IF r2 >= MODULUS_16 THEN r2 - MODULUS_16 ELSE r2, W32)

\* fast_mod_4294967291 folding the high part in with hi * 4 instead of hi * 5
fast_mod_4294967291_r_times_four(x) ==
  LET hi == <<x[3], x[4], 0, 0>>
      lo == <<x[1], x[2], 0, 0>>
  IN  Add(MulSmall(hi, 4), lo)

\* the value r of fast_mod_4294967291 before its final conditional subtraction
fast_mod_4294967291_r(x) ==
  LET hi == <<x[3], x[4], 0, 0>>
      lo == <<x[1], x[2], 0, 0>>
  IN  Add(MulSmall(hi, 5), lo)

\* fn fast_mod_4294967291(x: u64) -> u64
fast_mod_4294967291(x) ==
  LET r == fast_mod_4294967291_r(x)
  IN  IF Geq(r, MODULUS_32) THEN Sub(r, MODULUS_32) ELSE r

\* fn identity_mod_8(x: u32) -> u32
identity_mod_8(x) == Mod(x, U(MODULUS_8, W32))

(***************************************************************************)
(* One-shot functions.  data is a sequence of bytes, initial_seed a byte,  *)
(* modulus a non-zero u32 (u64 for the 32-bit functions).                  *)
(***************************************************************************)

\* the byte added before the shift: sum = ((sum + byte) << 8) % modulus
HornerStep_shift_after_add(sum, byte, modulus) ==
  Mod(Shl8(Add(sum, U(byte, Len(sum)))), modulus)

\* the step without the reduction
HornerStep_unreduced(sum, byte, modulus) == Add(Shl8(sum), U(byte, Len(sum)))

\* sum = ((sum << 8) + byte) % modulus
HornerStep(sum, byte, modulus) == Mod(Add(Shl8(sum), U(byte, Len(sum))), modulus)

\* for &byte in &data[i..] { sum = ((sum << 8) + byte) % modulus; }
RECURSIVE HornerLoop(_, _, _, _)
HornerLoop(sum, data, i, modulus) ==
  IF Eval(sum) /\ i > Len(data) THEN sum
  ELSE HornerLoop(HornerStep(sum, data[i], modulus), data, i + 1, modulus)

\* the implicit zero bytes appended without a reduction
RECURSIVE AppendZeros_unreduced(_, _, _)
AppendZeros_unreduced(sum, n, modulus) ==
  IF Eval(sum) /\ n = 0 THEN sum ELSE AppendZeros_unreduced(Shl8(sum), n - 1, modulus)

\* sum = (sum << 8) % modulus, n times
RECURSIVE AppendZeros(_, _, _)
AppendZeros(sum, n, modulus) ==
  IF Eval(sum) /\ n = 0 THEN sum ELSE AppendZeros(Mod(Shl8(sum), modulus), n - 1, modulus)

\* koopman8_with_modulus that adds the seed to the first byte instead of XORing it
koopman8_with_modulus_seed_added(data, initial_seed, modulus) ==
  IF data = <<>> THEN 0
  ELSE LET sum0 == U(data[1] + initial_seed, W32)
           sum1 == HornerLoop(sum0, data, 2, modulus)
       IN  AsU8(AppendZeros(sum1, 1, modulus))

\* koopman8_with_modulus whose loop starts at the first byte again
koopman8_with_modulus_first_byte_twice(data, initial_seed, modulus) ==
  IF data = <<>> THEN 0
  ELSE LET sum0 == U(Xor8(data[1], initial_seed), W32)
           sum1 == HornerLoop(sum0, data, 1, modulus)
       IN  AsU8(AppendZeros(sum1, 1, modulus))

koopman8_with_modulus(data, initial_seed, modulus) ==
  IF data = <<>> THEN 0
  ELSE LET sum0 == U(Xor8(data[1], initial_seed), W32)
           sum1 == HornerLoop(sum0, data, 2, modulus)
       IN  AsU8(AppendZeros(sum1, 1, modulus))

koopman8(data, initial_seed) == koopman8_with_modulus(data, initial_seed, NONZERO_MODULUS_8)

\* the step that reduces after every third byte
Koopman16Step_every_third(sum, count, byte) ==
  LET s == Add(Shl8(sum), U(byte, W64))
  IN  IF count + 1 = 3
        THEN <<Cast(fast_mod_65519(AsU32(s)), W64), 0>>
        ELSE <<s, count + 1>>

\* the loop of koopman16: delayed reduction every 2 bytes; yields <<sum, count>>
\* one iteration of the loop of koopman16; yields <<sum, count>>
Koopman16Step(sum, count, byte) ==
  LET s == Add(Shl8(sum), U(byte, W64))
  IN  IF count + 1 = 2
        THEN <<Cast(fast_mod_65519(AsU32(s)), W64), 0>>
        ELSE <<s, count + 1>>

RECURSIVE Koopman16Loop(_, _, _, _)
Koopman16Loop(sum, count, data, i) ==
  IF Eval(sum) /\ i > Len(data) THEN <<sum, count>>
  ELSE LET st == Koopman16Step(sum, count, data[i])
       IN  Koopman16Loop(st[1], st[2], data, i + 1)

\* koopman16 that never XORs the seed into the first byte
koopman16_unseeded(data, initial_seed) ==
  IF data = <<>> THEN 0
  ELSE LET sum0 == U(data[1], W64)
           lp == Koopman16Loop(sum0, 0, data, 2)
           sum1 == IF lp[2] > 0 THEN Cast(fast_mod_65519(AsU32(lp[1])), W64) ELSE lp[1]
           sum2 == Cast(fast_mod_65519(AsU32(Shl8(sum1))), W64)
           sum3 == Cast(fast_mod_65519(AsU32(Shl8(sum2))), W64)
       IN  AsU16(sum3)

\* koopman16 appending one implicit zero byte instead of two
koopman16_one_zero_byte(data, initial_seed) ==
  IF data = <<>> THEN 0
  ELSE LET sum0 == U(Xor8(data[1], initial_seed), W64)
           lp == Koopman16Loop(sum0, 0, data, 2)
           sum1 == IF lp[2] > 0 THEN Cast(fast_mod_65519(AsU32(lp[1])), W64) ELSE lp[1]
           sum2 == Cast(fast_mod_65519(AsU32(Shl8(sum1))), W64)
       IN  AsU16(sum2)

koopman16(data, initial_seed) ==
  IF data = <<>> THEN 0
  ELSE LET sum0 == U(Xor8(data[1], initial_seed), W64)
           lp == Koopman16Loop(sum0, 0, data, 2)
           sum1 == IF lp[2] > 0 THEN Cast(fast_mod_65519(AsU32(lp[1])), W64) ELSE lp[1]
           sum2 == Cast(fast_mod_65519(AsU32(Shl8(sum1))), W64)
           sum3 == Cast(fast_mod_65519(AsU32(Shl8(sum2))), W64)
       IN  AsU16(sum3)

\* koopman16_with_modulus without the early return: the seed alone is summed
koopman16_with_modulus_no_empty_check(data, initial_seed, modulus) ==
  LET sum0 == U(IF data = <<>> THEN initial_seed ELSE Xor8(data[1], initial_seed), W32)
      sum1 == HornerLoop(sum0, data, 2, modulus)
  IN  AsU16(AppendZeros(sum1, 2, modulus))

koopman16_with_modulus(data, initial_seed, modulus) ==
  IF data = <<>> THEN 0
  ELSE LET sum0 == U(Xor8(data[1], initial_seed), W32)
           sum1 == HornerLoop(sum0, data, 2, modulus)
       IN  AsU16(AppendZeros(sum1, 2, modulus))

\* for &byte in &data[i..] { sum = fast_mod_4294967291((sum << 8) + byte); }
RECURSIVE Koopman32Loop(_, _, _)
Koopman32Loop(sum, data, i) ==
  IF Eval(sum) /\ i > Len(data) THEN sum
  ELSE Koopman32Loop(fast_mod_4294967291(Add(Shl8(sum), U(data[i], W64))), data, i + 1)

\* koopman32 that mixes the seed into the first byte with an addition
koopman32_seed_added(data, initial_seed) ==
  IF data = <<>> THEN U(0, W32)
  ELSE LET sum0 == U(data[1] + initial_seed, W64)
           sum1 == Koopman32Loop(sum0, data, 2)
           sum2 == fast_mod_4294967291(Shl8(sum1))
           sum3 == fast_mod_4294967291(Shl8(sum2))
           sum4 == fast_mod_4294967291(Shl8(sum3))
           sum5 == fast_mod_4294967291(Shl8(sum4))
       IN  AsU32(sum5)

\* the u32 results are u32 limb pairs; the empty-input result is the u32 0
koopman32(data, initial_seed) ==
  IF data = <<>> THEN U(0, W32)
  ELSE LET sum0 == U(Xor8(data[1], initial_seed), W64)
           sum1 == Koopman32Loop(sum0, data, 2)
           sum2 == fast_mod_4294967291(Shl8(sum1))
           sum3 == fast_mod_4294967291(Shl8(sum2))
           sum4 == fast_mod_4294967291(Shl8(sum3))
           sum5 == fast_mod_4294967291(Shl8(sum4))
       IN  AsU32(sum5)

koopman32_with_modulus(data, initial_seed, modulus) ==
  IF data = <<>> THEN U(0, W32)
  ELSE LET sum0 == U(Xor8(data[1], initial_seed), W64)
           sum1 == HornerLoop(sum0, data, 2, modulus)
       IN  AsU32(AppendZeros(sum1, 4, modulus))

(***************************************************************************)
(* Parity variants                                                         *)
(***************************************************************************)

\* parity8 that reports even parity for every byte
parity8_always_even(x) == x - x

\* fn parity8(x: u8) -> u8
parity8(x) == count_ones(x) % 2

\* psum ^= byte for the bytes data[i..]
RECURSIVE ParityLoop(_, _, _)
ParityLoop(psum, data, i) ==
  IF Eval(psum) /\ i > Len(data) THEN psum ELSE ParityLoop(Xor8(psum, data[i]), data, i + 1)

\* koopman8p_with_modulus whose parity starts from data[0] without the seed
koopman8p_with_modulus_unseeded_parity(data, initial_seed, modulus) ==
  IF data = <<>> THEN 0
  ELSE LET sum0 == U(Xor8(data[1], initial_seed), W32)
           sum1 == HornerLoop(sum0, data, 2, modulus)
           psum == ParityLoop(data[1], data, 2)
           sum2 == AppendZeros(sum1, 1, modulus)
       IN  ((AsU8(sum2) * 2) % 256) + parity8(psum)

koopman8p_with_modulus(data, initial_seed, modulus) ==
  IF data = <<>> THEN 0
  ELSE LET sum0 == U(Xor8(data[1], initial_seed), W32)
           psum0 == AsU8(sum0)
           sum1 == HornerLoop(sum0, data, 2, modulus)
           psum == ParityLoop(psum0, data, 2)
           sum2 == AppendZeros(sum1, 1, modulus)
       IN  ((AsU8(sum2) * 2) % 256) + parity8(psum)

koopman8p(data, initial_seed) == koopman8p_with_modulus(data, initial_seed, NONZERO_MODULUS_7P)

\* koopman16p_with_modulus packing the parity into bit 15, the checksum below it
koopman16p_with_modulus_parity_on_top(data, initial_seed, modulus) ==
  IF data = <<>> THEN 0
  ELSE LET sum0 == U(Xor8(data[1], initial_seed), W32)
           psum0 == AsU8(sum0)
           sum1 == HornerLoop(sum0, data, 2, modulus)
           psum == ParityLoop(psum0, data, 2)
           sum2 == AppendZeros(sum1, 2, modulus)
       IN  (AsU16(sum2) % (Limb \div 2)) + parity8(psum) * (Limb \div 2)

koopman16p_with_modulus(data, initial_seed, modulus) ==
  IF data = <<>> THEN 0
  ELSE LET sum0 == U(Xor8(data[1], initial_seed), W32)
           psum0 == AsU8(sum0)
           sum1 == HornerLoop(sum0, data, 2, modulus)
           psum == ParityLoop(psum0, data, 2)
           sum2 == AppendZeros(sum1, 2, modulus)
       IN  ((AsU16(sum2) * 2) % Limb) + parity8(psum)

koopman16p(data, initial_seed) == koopman16p_with_modulus(data, initial_seed, NONZERO_MODULUS_15P)

\* koopman32p_with_modulus whose parity also takes in the low checksum byte
koopman32p_with_modulus_checksum_in_parity(data, initial_seed, modulus) ==
  IF data = <<>> THEN U(0, W32)
  ELSE LET sum0 == U(Xor8(data[1], initial_seed), W64)
           psum0 == AsU8(sum0)
           sum1 == HornerLoop(sum0, data, 2, modulus)
           psum == ParityLoop(psum0, data, 2)
           sum2 == AppendZeros(sum1, 4, modulus)
       IN  Add(Shl1(AsU32(sum2)), U(parity8(Xor8(psum, AsU8(sum2))), W32))

koopman32p_with_modulus(data, initial_seed, modulus) ==
  IF data = <<>> THEN U(0, W32)
  ELSE LET sum0 == U(Xor8(data[1], initial_seed), W64)
           psum0 == AsU8(sum0)
           sum1 == HornerLoop(sum0, data, 2, modulus)
           psum == ParityLoop(psum0, data, 2)
           sum2 == AppendZeros(sum1, 4, modulus)
       IN  Add(Shl1(AsU32(sum2)), U(parity8(psum), W32))

koopman32p(data, initial_seed) == koopman32p_with_modulus(data, initial_seed, NONZERO_MODULUS_31P)


(***************************************************************************)
(* Verification helpers                                                    *)
(***************************************************************************)

verify8(data, expected, initial_seed) == koopman8(data, initial_seed) = expected
verify16(data, expected, initial_seed) == koopman16(data, initial_seed) = expected
verify32(data, expected, initial_seed) == koopman32(data, initial_seed) = expected
verify8p(data, expected, initial_seed) == koopman8p(data, initial_seed) = expected

\* verify16p comparing with the checksum without parity
verify16p_without_parity(data, expected, initial_seed) ==
  koopman16(data, initial_seed) = expected

verify16p(data, expected, initial_seed) == koopman16p(data, initial_seed) = expected
verify32p(data, expected, initial_seed) == koopman32p(data, initial_seed) = expected

(***************************************************************************)
(* Streaming hashers.  A hasher is a record with the fields of the struct  *)
(* and the name of its type, which selects the macro's arguments.          *)
(***************************************************************************)
PlainNames == {"Koopman8", "Koopman16", "Koopman32"}
ParityNames == {"Koopman8P", "Koopman16P", "Koopman32P"}
Names == PlainNames \cup ParityNames

\* $sum_type: the number of limbs of sum, modulus and seed
SumWidth(name) == IF name \in {"Koopman32", "Koopman32P"} THEN W64 ELSE W32

\* $default_modulus_raw
DefaultModulus(name) ==
  CASE name = "Koopman8" -> U(MODULUS_8, W32)
    [] name = "Koopman16" -> U(MODULUS_16, W32)
    [] name = "Koopman32" -> MODULUS_32
    [] name = "Koopman8P" -> U(MODULUS_7P, W32)
    [] name = "Koopman16P" -> U(MODULUS_15P, W32)
    [] name = "Koopman32P" -> U(MODULUS_31P, W64)

\* $finalize_shifts
FinalizeShifts(name) ==
  CASE name \in {"Koopman8", "Koopman8P"} -> 1
    [] name \in {"Koopman16", "Koopman16P"} -> 2
    [] name \in {"Koopman32", "Koopman32P"} -> 4

\* $fast_mod
FastMod(name, x) ==
  CASE name = "Koopman8" -> identity_mod_8(x)
    [] name = "Koopman16" -> fast_mod_65519(x)
    [] name = "Koopman32" -> fast_mod_4294967291(x)

\* `sum as $output_type`
AsOutput(name, sum) ==
  CASE name \in {"Koopman8", "Koopman8P"} -> AsU8(sum)
    [] name \in {"Koopman16", "Koopman16P"} -> AsU16(sum)
    [] name \in {"Koopman32", "Koopman32P"} -> AsU32(sum)

\* the value 0 of $output_type
ZeroOutput(name) == IF name \in {"Koopman32", "Koopman32P"} THEN U(0, W32) ELSE 0

\* impl_streaming_hasher: new / with_modulus / with_seed
new(name) ==
  [name |-> name, sum |-> U(0, SumWidth(name)), modulus |-> DefaultModulus(name),
   seed |-> U(0, SumWidth(name)), initialized |-> FALSE, use_fast_mod |-> TRUE]

\* with_modulus that always selects the fast path
with_modulus_always_fast(name, modulus) ==
  [name |-> name, sum |-> U(0, SumWidth(name)), modulus |-> modulus,
   seed |-> U(0, SumWidth(name)), initialized |-> FALSE, use_fast_mod |-> TRUE]

with_modulus(name, modulus) ==
  [name |-> name, sum |-> U(0, SumWidth(name)), modulus |-> modulus,
   seed |-> U(0, SumWidth(name)), initialized |-> FALSE,
   use_fast_mod |-> (modulus = DefaultModulus(name))]

\* with_seed that drops the seed
with_seed_ignored(name, seed) == new(name)

with_seed(name, seed) ==
  [name |-> name, sum |-> U(seed, SumWidth(name)), modulus |-> DefaultModulus(name),
   seed |-> U(seed, SumWidth(name)), initialized |-> FALSE, use_fast_mod |-> TRUE]

\* for &byte in iter { self.sum = $fast_mod((self.sum << 8) + byte); }
RECURSIVE FastLoop(_, _, _, _)
FastLoop(name, sum, data, i) ==
  IF Eval(sum) /\ i > Len(data) THEN sum
  ELSE FastLoop(name, FastMod(name, Add(Shl8(sum), U(data[i], Len(sum)))), data, i + 1)

\* update that takes the first byte of every call for the seed XOR
update_first_of_every_call(self, data) ==
  IF data = <<>> THEN self
  ELSE LET sum0 == XorByte(self.sum, data[1])
           sum1 == IF self.use_fast_mod
                     THEN FastLoop(self.name, sum0, data, 2)
                     ELSE HornerLoop(sum0, data, 2, self.modulus)
       IN  [self EXCEPT !.sum = sum1, !.initialized = TRUE]

\* update without the early return, marking the hasher initialized on any call
update_marks_initialized(self, data) ==
  LET first == ~self.initialized /\ data # <<>>
      sum0 == IF first THEN XorByte(self.sum, data[1]) ELSE self.sum
      rest == IF first THEN 2 ELSE 1
      sum1 == IF self.use_fast_mod
                THEN FastLoop(self.name, sum0, data, rest)
                ELSE HornerLoop(sum0, data, rest, self.modulus)
  IN  [self EXCEPT !.sum = sum1, !.initialized = TRUE]

\* impl_streaming_hasher: update
update(self, data) ==
  IF data = <<>> THEN self
  ELSE LET first == ~self.initialized
           sum0 == IF first THEN XorByte(self.sum, data[1]) ELSE self.sum
           rest == IF first THEN 2 ELSE 1
           sum1 == IF self.use_fast_mod
                     THEN FastLoop(self.name, sum0, data, rest)
                     ELSE HornerLoop(sum0, data, rest, self.modulus)
       IN  [self EXCEPT !.sum = sum1, !.initialized = TRUE]

\* for _ in 0..n { sum = $fast_mod(sum << 8); }
RECURSIVE FastZeros(_, _, _)
FastZeros(name, sum, n) ==
  IF Eval(sum) /\ n = 0 THEN sum ELSE FastZeros(name, FastMod(name, Shl8(sum)), n - 1)

\* finalize without the check of the initialized flag
finalize_unchecked(self) ==
  LET sum == IF self.use_fast_mod
               THEN FastZeros(self.name, self.sum, FinalizeShifts(self.name))
               ELSE AppendZeros(self.sum, FinalizeShifts(self.name), self.modulus)
  IN  AsOutput(self.name, sum)

\* impl_streaming_hasher: finalize
finalize(self) ==
  IF ~self.initialized THEN ZeroOutput(self.name)
  ELSE LET sum == IF self.use_fast_mod
                    THEN FastZeros(self.name, self.sum, FinalizeShifts(self.name))
                    ELSE AppendZeros(self.sum, FinalizeShifts(self.name), self.modulus)
       IN  AsOutput(self.name, sum)

\* reset that leaves initialized as it is
reset_keeps_initialized(self) == [self EXCEPT !.sum = self.seed]

\* reset that clears the accumulator instead of restoring the seed
reset_to_zero(self) == [self EXCEPT !.sum = U(0, Len(self.sum)), !.initialized = FALSE]

\* impl_streaming_hasher: reset
reset(self) == [self EXCEPT !.sum = self.seed, !.initialized = FALSE]

\* impl_streaming_parity_hasher: new / with_modulus / with_seed
parity_new(name) ==
  [name |-> name, sum |-> U(0, SumWidth(name)), psum |-> 0,
   modulus |-> DefaultModulus(name), seed |-> U(0, SumWidth(name)), initialized |-> FALSE]

parity_with_modulus(name, modulus) ==
  [name |-> name, sum |-> U(0, SumWidth(name)), psum |-> 0,
   modulus |-> modulus, seed |-> U(0, SumWidth(name)), initialized |-> FALSE]

parity_with_seed(name, seed) ==
  [name |-> name, sum |-> U(seed, SumWidth(name)), psum |-> seed,
   modulus |-> DefaultModulus(name), seed |-> U(seed, SumWidth(name)), initialized |-> FALSE]

\* parity update that leaves the first byte out of psum
parity_update_skips_first(self, data) ==
  IF data = <<>> THEN self
  ELSE LET first == ~self.initialized
           sum0 == IF first THEN XorByte(self.sum, data[1]) ELSE self.sum
           rest == IF first THEN 2 ELSE 1
       IN  [self EXCEPT !.sum = HornerLoop(sum0, data, rest, self.modulus),
                        !.psum = ParityLoop(self.psum, data, rest),
                        !.initialized = TRUE]

\* impl_streaming_parity_hasher: update
parity_update(self, data) ==
  IF data = <<>> THEN self
  ELSE LET first == ~self.initialized
           sum0 == IF first THEN XorByte(self.sum, data[1]) ELSE self.sum
           psum0 == IF first THEN Xor8(self.psum, data[1]) ELSE self.psum
           rest == IF first THEN 2 ELSE 1
       IN  [self EXCEPT !.sum = HornerLoop(sum0, data, rest, self.modulus),
                        !.psum = ParityLoop(psum0, data, rest),
                        !.initialized = TRUE]

\* ((sum as $output_type) << 1) | (parity8(psum) as $output_type); bit 0 of the
\* shifted value is 0, so the | is an addition
Pack(name, sum, psum) ==
  CASE name = "Koopman8P" -> ((AsU8(sum) * 2) % 256) + parity8(psum)
    [] name = "Koopman16P" -> ((AsU16(sum) * 2) % Limb) + parity8(psum)
    [] name = "Koopman32P" -> Add(Shl1(AsU32(sum)), U(parity8(psum), W32))

\* impl_streaming_parity_hasher: finalize
parity_finalize(self) ==
  IF ~self.initialized THEN ZeroOutput(self.name)
  ELSE Pack(self.name, AppendZeros(self.sum, FinalizeShifts(self.name), self.modulus), self.psum)

\* parity_reset that leaves psum as it is
parity_reset_keeps_psum(self) == [self EXCEPT !.sum = self.seed, !.initialized = FALSE]

\* impl_streaming_parity_hasher: reset
parity_reset(self) ==
  [self EXCEPT !.sum = self.seed, !.psum = AsU8(self.seed), !.initialized = FALSE]


(***************************************************************************)
(* The state machine of one streaming hasher                               *)
(***************************************************************************)
VARIABLES
  h,       \* the hasher
  live,    \* FALSE once finalize(self) has consumed the hasher
  result,  \* the value finalize returned
  ctor,    \* the constructor call that built h: [name, fn, seed, modulus]
  fed,     \* the bytes passed to update since construction or the last reset
  hist,    \* "new": never reset; "reset": reset before any byte; "junk": reset after some byte
  op,      \* the last call on the live hasher: "ctor", "update" or "reset"
  arg,     \* the data of that call when it is an update, else <<>>
  \* a call of a function (specifications SpecFast, SpecOneShot, SpecHD)
  fn,      \* the function called, "none" before the call
  args,    \* its arguments, a record
  ret,     \* the value it returned
  base,    \* SpecHD: the uncorrupted message and its checksum
  flips,   \* SpecHD: the bit positions flipped in args.data
  \* calls that run one loop iteration per step (specification SpecSteps)
  frame,   \* the locals of the running call: [pc, sum, count, i, zeros]
  pending  \* the calls the caller has still to make

hvars == <<h, live, result, ctor, fed, hist, op, arg>>
cvars == <<fn, args, ret, base, flips>>
svars == <<frame, pending>>
vars == <<hvars, cvars, svars>>

\* the locals of a call that runs step by step, when none is running
Idle == [pc |-> "idle", sum |-> <<>>, count |-> 0, i |-> 0, zeros |-> 0]
NoFrame == frame = Idle /\ pending = <<>>

\* no function call is modelled beside the hasher
NoCall == fn = "none" /\ args = <<>> /\ ret = <<>> /\ base = <<>> /\ flips = {}

\* no hasher is modelled beside the function call
NoHasher ==
  /\ h = <<>> /\ live = FALSE /\ result = <<>> /\ ctor = <<>>
  /\ fed = <<>> /\ hist = "new" /\ op = "none" /\ arg = <<>>

\* bounds of the model
MaxLen == 4
MaxChunk == 2

Bytes == {0, 1, 128, 255}
Seeds == {0, 1, 238, 255}

\* 2^32 as a u64
Pow32 == <<0, 0, 1, 0>>

\* 2^31 as a u64
Pow31 == <<0, 32768, 0, 0>>

\* the moduli given to with_modulus: 1, a small one, the default, another of
\* the same size, and 2^N; for the parity variants up to 2^(N-1)
Moduli(name) ==
  CASE name = "Koopman8" -> {U(1, W32), U(239, W32), U(MODULUS_8, W32), U(256, W32)}
    [] name = "Koopman16" -> {U(1, W32), U(MODULUS_15P, W32), U(MODULUS_16, W32), U(65536, W32)}
    [] name = "Koopman32" -> {U(1, W64), U(MODULUS_16, W64), MODULUS_32, Pow32}
    [] name = "Koopman8P" -> {U(MODULUS_7P, W32), U(127, W32), U(128, W32)}
    [] name = "Koopman16P" -> {U(MODULUS_15P, W32), U(32767, W32), U(32768, W32)}
    [] name = "Koopman32P" -> {U(MODULUS_31P, W64), U(MODULUS_15P, W64), Pow31}

Ctors ==
  [name : Names, fn : {"new"}, seed : {0}, modulus : {<<>>}]
    \cup [name : Names, fn : {"with_seed"}, seed : Seeds, modulus : {<<>>}]
    \cup UNION {[name : {n}, fn : {"with_modulus"}, seed : {0}, modulus : Moduli(n)] : n \in Names}

Construct(c) ==
  IF c.name \in PlainNames
    THEN CASE c.fn = "new" -> new(c.name)
           [] c.fn = "with_seed" -> with_seed(c.name, c.seed)
           [] c.fn = "with_modulus" -> with_modulus(c.name, c.modulus)
    ELSE CASE c.fn = "new" -> parity_new(c.name)
           [] c.fn = "with_seed" -> parity_with_seed(c.name, c.seed)
           [] c.fn = "with_modulus" -> parity_with_modulus(c.name, c.modulus)

RECURSIVE SeqsUpTo(_)
SeqsUpTo(n) ==
  IF n = 0 THEN {<<>>}
  ELSE LET shorter == SeqsUpTo(n - 1)
       IN  shorter \cup {Append(q, b) : q \in {t \in shorter : Len(t) = n - 1}, b \in Bytes}

Chunks == SeqsUpTo(MaxChunk)

Init ==
  \E c \in Ctors :
    /\ NoCall /\ NoFrame
    /\ h = Construct(c)
    /\ ctor = c
    /\ live = TRUE
    /\ result = <<>>
    /\ fed = <<>>
    /\ hist = "new"
    /\ op = "ctor"
    /\ arg = <<>>

Update ==
  \E data \in Chunks :
    /\ live
    /\ Len(fed) + Len(data) <= MaxLen
    /\ h' = IF h.name \in PlainNames THEN update(h, data) ELSE parity_update(h, data)
    /\ fed' = fed \o data
    /\ op' = "update"
    /\ arg' = data
    /\ UNCHANGED <<live, result, ctor, hist, cvars, svars>>

Reset ==
  /\ live
  /\ h' = IF h.name \in PlainNames THEN reset(h) ELSE parity_reset(h)
  /\ fed' = <<>>
  /\ hist' = IF fed # <<>> \/ hist = "junk" THEN "junk" ELSE "reset"
  /\ op' = "reset"
  /\ arg' = <<>>
  /\ UNCHANGED <<live, result, ctor, cvars, svars>>

Finalize ==
  /\ live
  /\ result' = IF h.name \in PlainNames THEN finalize(h) ELSE parity_finalize(h)
  /\ live' = FALSE
  /\ UNCHANGED <<h, ctor, fed, hist, op, arg, cvars, svars>>

Next == Update \/ Reset \/ Finalize

Spec == Init /\ [][Next]_vars


(***************************************************************************)
(* Properties of the streaming hashers (specification Spec)                *)
(***************************************************************************)

\* the one-shot function of a hasher type
OneShot(name, data, seed) ==
  CASE name = "Koopman8" -> koopman8(data, seed)
    [] name = "Koopman16" -> koopman16(data, seed)
    [] name = "Koopman32" -> koopman32(data, seed)
    [] name = "Koopman8P" -> koopman8p(data, seed)
    [] name = "Koopman16P" -> koopman16p(data, seed)
    [] name = "Koopman32P" -> koopman32p(data, seed)

\* the one-shot function with a modulus of a plain hasher type
OneShotWithModulus(name, data, seed, modulus) ==
  CASE name = "Koopman8" -> koopman8_with_modulus(data, seed, modulus)
    [] name = "Koopman16" -> koopman16_with_modulus(data, seed, modulus)
    [] name = "Koopman32" -> koopman32_with_modulus(data, seed, modulus)

\* C1: a plain hasher built by with_seed(s), fed the bytes d in any chunks
\* (never reset) and finalized, returns koopmanN(d, s).
C1_StreamingEqualsOneShot ==
  (~live /\ hist = "new" /\ ctor.name \in PlainNames /\ ctor.fn = "with_seed")
    => result = OneShot(ctor.name, fed, ctor.seed)

\* a seeded Koopman16 fed MaxLen bytes, the last chunk a single byte, then finalized
C1_Witness ==
  /\ ~live /\ hist = "new" /\ ctor.name = "Koopman16" /\ ctor.fn = "with_seed"
  /\ ctor.seed = 238 /\ Len(fed) = MaxLen /\ Len(arg) = 1 /\ result # 0

\* C4: a parity hasher built by with_seed(s), fed the bytes d in any chunks
\* (never reset) and finalized, returns koopmanNp(d, s), checksum bits and parity bit.
C4_ParityStreamingEqualsOneShot ==
  (~live /\ hist = "new" /\ ctor.name \in ParityNames /\ ctor.fn = "with_seed")
    => result = OneShot(ctor.name, fed, ctor.seed)

\* a seeded Koopman16P fed MaxLen bytes in several chunks, finalized with parity bit 1
C4_Witness ==
  /\ ~live /\ hist = "new" /\ ctor.name = "Koopman16P" /\ ctor.fn = "with_seed"
  /\ ctor.seed = 238 /\ Len(fed) = MaxLen /\ Len(arg) = 1 /\ result % 2 = 1

\* C6: finalize on a hasher that has consumed no byte since construction or
\* the last reset returns 0, whatever the seed, for plain and parity hashers.
C6_FinalizeWithoutDataIsZero ==
  (~live /\ fed = <<>>)
    => result = IF ctor.name \in {"Koopman32", "Koopman32P"} THEN <<0, 0>> ELSE 0

\* a seeded hasher that consumed junk, was reset, got an empty update and was finalized
C6_Witness ==
  /\ ~live /\ fed = <<>> /\ hist = "junk" /\ op = "update" /\ ctor.seed = 255

\* C7: a plain hasher built by with_seed(s) that consumed junk, was reset,
\* was fed the bytes d and finalized returns koopmanN(d, s).
C7_ResetRestoresSeed ==
  (~live /\ hist = "junk" /\ ctor.name \in PlainNames /\ ctor.fn = "with_seed")
    => result = OneShot(ctor.name, fed, ctor.seed)

\* a Koopman32 seeded with 238, reset after junk, fed MaxLen bytes and finalized
C7_Witness ==
  /\ ~live /\ hist = "junk" /\ ctor.name = "Koopman32" /\ ctor.fn = "with_seed"
  /\ ctor.seed = 238 /\ Len(fed) = MaxLen

\* C8: a plain hasher built by with_modulus(m), 1 <= m <= 2^N, fed the bytes d
\* in any chunks and finalized returns koopmanN_with_modulus(d, 0, m), and it
\* uses the fast path exactly when m is the default modulus of its width.
C8_CustomModulusStreaming ==
  (~live /\ ctor.name \in PlainNames /\ ctor.fn = "with_modulus")
    => /\ result = OneShotWithModulus(ctor.name, fed, 0, ctor.modulus)
       /\ h.use_fast_mod <=>
            ctor.modulus = (CASE ctor.name = "Koopman8" -> NONZERO_MODULUS_8
                              [] ctor.name = "Koopman16" -> NONZERO_MODULUS_16
                              [] ctor.name = "Koopman32" -> NONZERO_MODULUS_32)

\* a Koopman16 with the modulus 32749, on the generic path, fed MaxLen bytes and finalized
C8_Witness ==
  /\ ~live /\ ctor.name = "Koopman16" /\ ctor.fn = "with_modulus"
  /\ ctor.modulus = U(MODULUS_15P, W32) /\ ~h.use_fast_mod
  /\ Len(fed) = MaxLen /\ Len(arg) = 1 /\ result # 0

\* C9: an update with an empty slice leaves every field of the hasher unchanged.
C9_EmptyUpdateIsNoOp ==
  [][(op' = "update" /\ arg' = <<>>) => h' = h]_vars

\* an empty update was the last call on an Accumulating parity hasher
C9_Witness ==
  /\ live /\ op = "update" /\ arg = <<>> /\ h.initialized /\ fed # <<>>
  /\ ctor.name = "Koopman8P"

\* the hasher with its first byte consumed: the seed XOR the byte
SeedXor(self, first) ==
  IF self.name \in PlainNames
    THEN [self EXCEPT !.sum = XorByte(self.seed, first), !.initialized = TRUE]
    ELSE [self EXCEPT !.sum = XorByte(self.seed, first),
                      !.psum = Xor8(AsU8(self.seed), first),
                      !.initialized = TRUE]

\* update of the hasher's type
UpdateOf(self, data) ==
  IF self.name \in PlainNames THEN update(self, data) ELSE parity_update(self, data)

\* C23: initialized is false exactly when no byte was consumed since the
\* construction or the last reset; while it is false, sum is the seed (and so
\* is psum in a parity hasher); the first non-empty update takes exactly one
\* byte for the seed XOR and handles the rest as later bytes; initialized,
\* once true, stays true until reset.
C23_InitializedInvariant ==
  /\ [](/\ h.initialized = (fed # <<>>)
        /\ (~h.initialized) => (h.sum = h.seed)
        /\ (~h.initialized /\ h.name \in ParityNames) => (h.psum = AsU8(h.seed)))
  /\ [][((op' = "update" /\ ~h.initialized /\ arg' # <<>>)
            => (h' = UpdateOf(SeedXor(h, arg'[1]), Tail(arg'))))
        /\ ((h.initialized /\ op' # "reset") => h'.initialized)]_vars

\* a seeded parity hasher was fed, reset, and then given two bytes in its
\* first non-empty update after an empty one
C23_Witness ==
  /\ h.name = "Koopman16P" /\ h.seed = U(238, W32)
  /\ hist = "junk"
  /\ op = "update" /\ Len(arg) = 2 /\ fed = arg
  /\ h.initialized
  /\ h.psum # AsU8(h.seed)

\* reset of the hasher's type
ResetOf(self) == IF self.name \in PlainNames THEN reset(self) ELSE parity_reset(self)

\* modulus, seed and the fast-path flag of a hasher
Configuration(self) ==
  IF self.name \in PlainNames
    THEN <<self.modulus, self.seed, self.use_fast_mod>>
    ELSE <<self.modulus, self.seed>>

\* C29: after any sequence of update and reset calls the modulus, the seed and
\* the fast-path flag are those of the construction; directly after reset the
\* whole state is the state the constructor returned, so a second reset, and
\* a reset of a fresh hasher, change nothing.
C29_ResetRestoresConstructedState ==
  /\ [](Configuration(h) = Configuration(Construct(ctor)))
  /\ [][((live' /\ op' = "reset") => (h' = Construct(ctor) /\ ResetOf(h') = h'))
        /\ ((h = Construct(ctor) /\ fed = <<>> /\ op' = "reset") => (h' = h))]_vars

\* a seeded parity hasher was fed and then reset
C29_Witness ==
  /\ h.name = "Koopman32P" /\ ctor.fn = "with_seed" /\ ctor.seed = 238
  /\ hist = "junk" /\ op = "reset" /\ live
  /\ h = Construct(ctor)
  /\ h.psum = 238

(***************************************************************************)
(* The fast reductions applied to sampled inputs (specification SpecFast)  *)
(***************************************************************************)

\* bounds of the sample
HiStride == 251
HiRun == 4
LoStride == 4099
Spread == 3

\* x >> 16 of the inputs of fast_mod_65519: runs of HiRun values every HiStride,
\* the values where hi * 17 + 0xFFFF crosses a multiple of 2^16, and the top of
\* the documented domain, (MODULUS_16 - 1) << 16 + 0xFFFF
Fast16Hi ==
  ({hi \in 0..(MODULUS_16 - 1) : hi % HiStride < HiRun}
     \cup UNION {(((k * Limb) \div 17) - k - Spread)..(((k * Limb) \div 17) + Spread) : k \in 1..17}
     \cup ((MODULUS_16 - 1 - Spread)..(MODULUS_16 - 1)))
    \cap (0..(MODULUS_16 - 1))

\* x & 0xFFFF of the inputs of fast_mod_65519
Fast16Lo ==
  (0..(17 + Spread)) \cup {lo \in 0..(Limb - 1) : lo % LoStride = 0}
    \cup ((MODULUS_16 - 17 - Spread)..(Limb - 1))

Fast16Inputs == {<<lo, hi>> : lo \in Fast16Lo, hi \in Fast16Hi}

\* the inputs of fast_mod_4294967291, all below 2^40: x >> 32 in 0..255, the
\* low 32 bits around 0, around 2^31 and in the last 5 * 256 + Spread values
Fast32Inputs ==
  {<<l1, l2, l3, 0>> :
     l1 \in (0..Spread) \cup ((Limb - 1 - 5 * 256 - Spread)..(Limb - 1)),
     l2 \in {0, 1, 32768, Limb - 2, Limb - 1},
     l3 \in (0..Spread) \cup {127, 128} \cup ((255 - Spread)..255)}

InitFast ==
  /\ NoHasher /\ NoFrame
  /\ fn = "none" /\ ret = <<>> /\ base = <<>> /\ flips = {}
  /\ args \in [x : Fast16Inputs \cup Fast32Inputs]

Call_fast_mod_65519 ==
  /\ fn = "none" /\ Len(args.x) = W32
  /\ fn' = "fast_mod_65519"
  /\ ret' = fast_mod_65519(args.x)
  /\ UNCHANGED <<args, base, flips, hvars, svars>>

Call_fast_mod_4294967291 ==
  /\ fn = "none" /\ Len(args.x) = W64
  /\ fn' = "fast_mod_4294967291"
  /\ ret' = fast_mod_4294967291(args.x)
  /\ UNCHANGED <<args, base, flips, hvars, svars>>

NextFast == Call_fast_mod_65519 \/ Call_fast_mod_4294967291

SpecFast == InitFast /\ [][NextFast]_vars

\* C2: for every x of its documented domain, 0 ..= 65518 * 2^16 + 0xFFFF,
\* fast_mod_65519(x) is x mod 65519, and the value before the final
\* conditional subtraction is below 2 * 65519.
C2_FastMod65519 ==
  fn = "fast_mod_65519"
    => /\ ret = Mod(args.x, U(65519, W32))
       /\ fast_mod_65519_r2(args.x) < 2 * 65519

\* an input whose twice-folded value no longer fits 16 bits, so that the final
\* subtraction is what brings it into range
C2_Witness ==
  /\ fn = "fast_mod_65519" /\ args.x = <<65535, 61665>>
  /\ fast_mod_65519_r2(args.x) >= Limb /\ ret = <<17, 0>>

\* C20: for every x below 2^40, the boundary values 0, modulus - 1, modulus,
\* modulus + 1 and 2^40 - 1 among them, fast_mod_4294967291(x) is
\* x mod 4294967291, and the value before the final conditional subtraction
\* is below twice the modulus.
C20_FastMod4294967291 ==
  fn = "fast_mod_4294967291"
    => /\ ret = Mod(args.x, <<65531, 65535, 0, 0>>)
       /\ Lt(fast_mod_4294967291_r(args.x), <<65526, 65535, 1, 0>>)

\* 2^40 - 1: the folded value exceeds 2^32 and the subtraction leaves 1279
C20_Witness ==
  /\ fn = "fast_mod_4294967291" /\ args.x = <<Limb - 1, Limb - 1, 255, 0>>
  /\ Geq(fast_mod_4294967291_r(args.x), Pow32)
  /\ ret = <<1279, 0, 0, 0>>

(***************************************************************************)
(* The one-shot functions applied to sampled inputs (SpecOneShot)          *)
(***************************************************************************)

\* bound on the length of the data
MaxData == 5

\* const TEST_DATA: &[u8] = b"123456789";
TEST_DATA == <<49, 50, 51, 52, 53, 54, 55, 56, 57>>

OneShotArgs ==
  [data : SeqsUpTo(MaxData), initial_seed : Seeds, modulus : {<<>>}]
    \cup [data : {<<>>, TEST_DATA}, initial_seed : 0..255, modulus : {<<>>}]

InitOneShot ==
  /\ NoHasher /\ NoFrame
  /\ fn = "none" /\ ret = <<>> /\ base = <<>> /\ flips = {}
  /\ args \in OneShotArgs

\* a call of the function named f that returns v
Returns(f, v) ==
  /\ fn = "none"
  /\ fn' = f
  /\ ret' = v
  /\ UNCHANGED <<args, base, flips, hvars, svars>>

\* a call of the function named f with the modulus m that returns v
ReturnsWithModulus(f, m, v) ==
  /\ fn = "none"
  /\ fn' = f
  /\ args' = [args EXCEPT !.modulus = m]
  /\ ret' = v
  /\ UNCHANGED <<base, flips, hvars, svars>>

Call_koopman8 == Returns("koopman8", koopman8(args.data, args.initial_seed))
Call_koopman16 == Returns("koopman16", koopman16(args.data, args.initial_seed))
Call_koopman32 == Returns("koopman32", koopman32(args.data, args.initial_seed))
Call_koopman8p == Returns("koopman8p", koopman8p(args.data, args.initial_seed))
Call_koopman16p == Returns("koopman16p", koopman16p(args.data, args.initial_seed))
Call_koopman32p == Returns("koopman32p", koopman32p(args.data, args.initial_seed))

Call_koopman8_with_modulus ==
  \E m \in Moduli("Koopman8") :
    ReturnsWithModulus("koopman8_with_modulus", m,
                       koopman8_with_modulus(args.data, args.initial_seed, m))

Call_koopman16_with_modulus ==
  \E m \in Moduli("Koopman16") :
    ReturnsWithModulus("koopman16_with_modulus", m,
                       koopman16_with_modulus(args.data, args.initial_seed, m))

Call_koopman32_with_modulus ==
  \E m \in Moduli("Koopman32") :
    ReturnsWithModulus("koopman32_with_modulus", m,
                       koopman32_with_modulus(args.data, args.initial_seed, m))

Call_koopman8p_with_modulus ==
  \E m \in Moduli("Koopman8P") :
    ReturnsWithModulus("koopman8p_with_modulus", m,
                       koopman8p_with_modulus(args.data, args.initial_seed, m))

Call_koopman16p_with_modulus ==
  \E m \in Moduli("Koopman16P") :
    ReturnsWithModulus("koopman16p_with_modulus", m,
                       koopman16p_with_modulus(args.data, args.initial_seed, m))

Call_koopman32p_with_modulus ==
  \E m \in Moduli("Koopman32P") :
    ReturnsWithModulus("koopman32p_with_modulus", m,
                       koopman32p_with_modulus(args.data, args.initial_seed, m))

NextOneShot ==
  \/ Call_koopman8 \/ Call_koopman16 \/ Call_koopman32
  \/ Call_koopman8p \/ Call_koopman16p \/ Call_koopman32p
  \/ Call_koopman8_with_modulus \/ Call_koopman16_with_modulus
  \/ Call_koopman32_with_modulus
  \/ Call_koopman8p_with_modulus \/ Call_koopman16p_with_modulus
  \/ Call_koopman32p_with_modulus

SpecOneShot == InitOneShot /\ [][NextOneShot]_vars

\* C3: each default function returns what its _with_modulus form returns for
\* the documented default modulus: 253, 65519, 4294967291, 125, 32749, 2147483629.
C3_DefaultEqualsWithModulus ==
  /\ fn = "koopman8" =>
       ret = koopman8_with_modulus(args.data, args.initial_seed, U(253, W32))
  /\ fn = "koopman16" =>
       ret = koopman16_with_modulus(args.data, args.initial_seed, U(65519, W32))
  /\ fn = "koopman32" =>
       ret = koopman32_with_modulus(args.data, args.initial_seed, <<65531, 65535, 0, 0>>)
  /\ fn = "koopman8p" =>
       ret = koopman8p_with_modulus(args.data, args.initial_seed, U(125, W32))
  /\ fn = "koopman16p" =>
       ret = koopman16p_with_modulus(args.data, args.initial_seed, U(32749, W32))
  /\ fn = "koopman32p" =>
       ret = koopman32p_with_modulus(args.data, args.initial_seed, U(2147483629, W64))

\* koopman16 on MaxData bytes of 0xFF with a seed: the delayed reduction runs
\* on two unreduced bytes and the trailing reduction on one
C3_Witness ==
  /\ fn = "koopman16" /\ Len(args.data) = MaxData /\ args.initial_seed = 238
  /\ \A i \in 1..MaxData : args.data[i] = 255
  /\ ret # 0

\* C5: every one-shot function returns 0 on the empty byte sequence, for
\* every seed and every modulus.
C5_EmptyIsZero ==
  (fn # "none" /\ args.data = <<>>)
    => ret = IF fn \in {"koopman32", "koopman32_with_modulus",
                        "koopman32p", "koopman32p_with_modulus"}
               THEN <<0, 0>> ELSE 0

\* koopman16_with_modulus on the empty sequence with the seed 200
C5_Witness ==
  /\ fn = "koopman16_with_modulus" /\ args.data = <<>>
  /\ args.initial_seed = 200 /\ args.modulus = U(MODULUS_15P, W32)

\* the number of one bits in the bytes of data
RECURSIVE OnesIn(_)
OnesIn(data) == IF data = <<>> THEN 0 ELSE count_ones(Head(data)) + OnesIn(Tail(data))

\* bit 0 of the value the function f returned
Bit0(f, v) ==
  IF f \in {"koopman32p", "koopman32p_with_modulus"} THEN v[1] % 2 ELSE v % 2

\* C13: for non-empty data, bit 0 of koopmanNp(data, seed) is the parity of
\* seed XOR data[0] XOR ... XOR data[n-1], that is of the one bits of the seed
\* and of the data bytes together; no checksum byte enters it.
C13_ParityBit ==
  (fn \in {"koopman8p", "koopman16p", "koopman32p", "koopman8p_with_modulus",
           "koopman16p_with_modulus", "koopman32p_with_modulus"}
     /\ args.data # <<>>)
    => Bit0(fn, ret) = (count_ones(args.initial_seed) + OnesIn(args.data)) % 2

\* koopman8p on three bytes and a seed with eleven one bits in all
C13_Witness ==
  /\ fn = "koopman8p" /\ args.data = <<255, 1, 128>> /\ args.initial_seed = 1
  /\ ret % 2 = 1

\* v >> 1 for the value v the function f returned
Shr1(f, v) ==
  IF f = "koopman32p_with_modulus"
    THEN <<(v[1] \div 2) + (v[2] % 2) * (Limb \div 2), v[2] \div 2>>
    ELSE v \div 2

\* C14: for non-empty data and a modulus up to 2^(N-1), the result of
\* koopmanNp_with_modulus shifted right by one is koopmanN_with_modulus of the
\* same data, seed and modulus.
C14_PackedLayout ==
  args.data # <<>> =>
    /\ fn = "koopman8p_with_modulus" =>
         Shr1(fn, ret) = koopman8_with_modulus(args.data, args.initial_seed, args.modulus)
    /\ fn = "koopman16p_with_modulus" =>
         Shr1(fn, ret) = koopman16_with_modulus(args.data, args.initial_seed, args.modulus)
    /\ fn = "koopman32p_with_modulus" =>
         Shr1(fn, ret) = koopman32_with_modulus(args.data, args.initial_seed, args.modulus)

\* koopman16p_with_modulus with the modulus 2^15 - 1 and an odd parity
C14_Witness ==
  /\ fn = "koopman16p_with_modulus" /\ args.modulus = U(32767, W32)
  /\ Len(args.data) = MaxData /\ args.initial_seed = 238
  /\ ret % 2 = 1 /\ ret > 1

\* C16: for every pair of distinct seeds s1, s2 in 0..255,
\* koopman16("123456789", s1) differs from koopman16("123456789", s2).
C16_SeedSensitivity16 ==
  (fn = "koopman16" /\ args.data = TEST_DATA)
    => \A s2 \in (0..255) \ {args.initial_seed} : koopman16(TEST_DATA, s2) # ret

\* koopman16 of the test vector under the seed 255
C16_Witness ==
  /\ fn = "koopman16" /\ args.data = TEST_DATA /\ args.initial_seed = 255
  /\ ret # koopman16(TEST_DATA, 0)

\* C17 as claimed: for every pair of distinct seeds s1, s2 in 0..255,
\* koopman8("123456789", s1) differs from koopman8("123456789", s2).
C17_SeedSensitivity8 ==
  (fn = "koopman8" /\ args.data = TEST_DATA)
    => \A s2 \in (0..255) \ {args.initial_seed} : koopman8(TEST_DATA, s2) # ret

\* the pairs of seeds for which the first byte, 0x31 XOR seed, differs by 253
CollidingSeeds == {{48, 207}, {49, 204}, {51, 206}}

\* C17 amended: koopman8("123456789", s1) differs from
\* koopman8("123456789", s2) for every pair of distinct seeds except the three
\* pairs {0x30, 0xCF}, {0x31, 0xCC} and {0x33, 0xCE}, for which it is equal.
C17_SeedSensitivity8Amended ==
  (fn = "koopman8" /\ args.data = TEST_DATA)
    => \A s2 \in (0..255) \ {args.initial_seed} :
         (koopman8(TEST_DATA, s2) = ret) <=> ({args.initial_seed, s2} \in CollidingSeeds)

\* koopman8 of the test vector under the seed 0x31, which collides with 0xCC
C17_Witness ==
  /\ fn = "koopman8" /\ args.data = TEST_DATA /\ args.initial_seed = 49
  /\ ret = koopman8(TEST_DATA, 204) /\ ret # koopman8(TEST_DATA, 0)

\* data with its first byte replaced by data[0] ^ seed
SeedFolded(data, seed) == [data EXCEPT ![1] = Xor8(@, seed)]

\* C22: the seed only affects the first byte: for non-empty data, koopmanN and
\* koopmanNp of (data, seed) return what they return for seed 0 on the data
\* whose first byte is data[0] XOR seed.
C22_SeedOnlyFirstByte ==
  (fn \in {"koopman8", "koopman16", "koopman32", "koopman8p", "koopman16p", "koopman32p"}
     /\ args.data # <<>>)
    => LET folded == SeedFolded(args.data, args.initial_seed)
       IN  ret = CASE fn = "koopman8" -> koopman8(folded, 0)
                   [] fn = "koopman16" -> koopman16(folded, 0)
                   [] fn = "koopman32" -> koopman32(folded, 0)
                   [] fn = "koopman8p" -> koopman8p(folded, 0)
                   [] fn = "koopman16p" -> koopman16p(folded, 0)
                   [] fn = "koopman32p" -> koopman32p(folded, 0)

\* koopman32 returned for several bytes under a seed that shares bits with
\* the first byte
C22_Witness ==
  /\ fn = "koopman32"
  /\ args.data = <<255, 1, 128>>
  /\ args.initial_seed = 238
  /\ ret # koopman32(args.data, 0)

\* data without its leading zero bytes
RECURSIVE StripZeros(_)
StripZeros(data) ==
  IF data # <<>> /\ Head(data) = 0 THEN StripZeros(Tail(data)) ELSE data

\* C26: under seed 0, leading zero bytes do not change koopmanN: the checksum
\* of k zero bytes followed by non-empty data is the checksum of data, and the
\* checksum of an all-zero message is 0, as for the empty message.
C26_LeadingZeros ==
  (fn \in {"koopman8", "koopman16", "koopman32"} /\ args.initial_seed = 0
     /\ args.data # <<>>)
    => LET rest == StripZeros(args.data)
       IN  ret = CASE fn = "koopman8" -> IF rest = <<>> THEN 0 ELSE koopman8(rest, 0)
                   [] fn = "koopman16" -> IF rest = <<>> THEN 0 ELSE koopman16(rest, 0)
                   [] fn = "koopman32" -> IF rest = <<>> THEN U(0, W32)
                                                         ELSE koopman32(rest, 0)

\* koopman8 returned for two zero bytes followed by a first byte above the
\* modulus and one more byte
C26_Witness ==
  /\ fn = "koopman8"
  /\ args.initial_seed = 0
  /\ args.data = <<0, 0, 255, 1>>
  /\ ret # 0
  /\ ret = koopman8(<<255, 1>>, 0)

(***************************************************************************)
(* Bit errors (specification SpecHD), after tests/hd_exhaustive.rs         *)
(***************************************************************************)

\* MAX_LEN_8: the longest data for which koopman8 detects all 1- and 2-bit errors
MAX_LEN_8 == 13
\* MAX_LEN_8P: the longest data for which koopman8p detects all 1- to 3-bit errors
MAX_LEN_8P == 5

\* the functions under test, with the max_len and max_errors of their tests
HDFunctions == {"koopman8", "koopman8p"}
max_len(f) == CASE f = "koopman8" -> MAX_LEN_8 [] f = "koopman8p" -> MAX_LEN_8P
max_errors(f) == CASE f = "koopman8" -> 2 [] f = "koopman8p" -> 3

generate_zeros(len) == [i \in 1..len |-> 0]
generate_pattern(len) == [i \in 1..len |-> ((i - 1) * 7 + 13) % 256]

\* data[bit_pos / 8] ^= 1 << (bit_pos % 8)
flip_bit(data, bit_pos) ==
  [data EXCEPT ![(bit_pos \div 8) + 1] = Xor8(@, 2^(bit_pos % 8))]

\* the seeds of hd_quick_sanity
SeedsHD == {0, 1, 127, 128, 255}

\* checksum_fn(data, seed)
checksum_fn(f, data, seed) ==
  CASE f = "koopman8" -> koopman8(data, seed)
    [] f = "koopman8p" -> koopman8p(data, seed)

\* the original message: zeros or the pattern, of every length up to the maximum
InitHD ==
  /\ NoHasher /\ NoFrame
  /\ \E f \in HDFunctions, seed \in SeedsHD :
       \E len \in 1..max_len(f) :
         \E data \in {generate_zeros(len), generate_pattern(len)} :
           /\ fn = f
           /\ args = [data |-> data, initial_seed |-> seed]
           /\ ret = checksum_fn(f, data, seed)
           /\ base = [data |-> data, ret |-> checksum_fn(f, data, seed)]
           /\ flips = {}

\* verify_1bit: one bit of the original is flipped and the checksum recomputed
Verify1Bit ==
  /\ flips = {}
  /\ \E bit \in 0..(Len(base.data) * 8 - 1) :
       LET corrupted == flip_bit(base.data, bit)
       IN  /\ flips' = {bit}
           /\ args' = [args EXCEPT !.data = corrupted]
           /\ ret' = checksum_fn(fn, corrupted, args.initial_seed)
  /\ UNCHANGED <<fn, base, hvars, svars>>

\* verify_2bit: a second, higher bit is flipped and the checksum recomputed
Verify2Bit ==
  /\ Cardinality(flips) = 1
  /\ \E bit1 \in flips : \E bit2 \in (bit1 + 1)..(Len(base.data) * 8 - 1) :
       LET corrupted == flip_bit(args.data, bit2)
       IN  /\ flips' = {bit1, bit2}
           /\ args' = [args EXCEPT !.data = corrupted]
           /\ ret' = checksum_fn(fn, corrupted, args.initial_seed)
  /\ UNCHANGED <<fn, base, hvars, svars>>

\* verify_3bit: a third, still higher bit is flipped and the checksum recomputed
Verify3Bit ==
  /\ Cardinality(flips) = 2
  /\ max_errors(fn) >= 3
  /\ \E bit3 \in 0..(Len(base.data) * 8 - 1) :
       LET corrupted == flip_bit(args.data, bit3)
       IN  /\ \A bit \in flips : bit < bit3
           /\ flips' = flips \cup {bit3}
           /\ args' = [args EXCEPT !.data = corrupted]
           /\ ret' = checksum_fn(fn, corrupted, args.initial_seed)
  /\ UNCHANGED <<fn, base, hvars, svars>>

NextHD == Verify1Bit \/ Verify2Bit \/ Verify3Bit

SpecHD == InitHD /\ [][NextHD]_vars

C11_Koopman8pDetectsThreeBitErrors ==
  (fn = "koopman8p" /\ flips # {}) => ret # base.ret

\* three bits of the 5-byte pattern flipped, the first and the last among them
C11_Witness ==
  /\ fn = "koopman8p" /\ base.data = generate_pattern(MAX_LEN_8P)
  /\ args.initial_seed = 127 /\ flips = {0, 17, 8 * MAX_LEN_8P - 1}
  /\ args.data # base.data

(***************************************************************************)
(* Bits of the data of a parity variant flipped one by one (SpecFlip)      *)
(***************************************************************************)

MaxFlipData == 2
MaxFlips == 3

FlipFunctions ==
  {"koopman8p_with_modulus", "koopman16p_with_modulus", "koopman32p_with_modulus"}

\* the default modulus of the parity variant and that of the plain one
FlipModuli(f) ==
  CASE f = "koopman8p_with_modulus" -> {U(MODULUS_7P, W32), U(MODULUS_8, W32)}
    [] f = "koopman16p_with_modulus" -> {U(MODULUS_15P, W32), U(MODULUS_16, W32)}
    [] f = "koopman32p_with_modulus" -> {U(MODULUS_31P, W64), MODULUS_32}

parity_fn(f, data, seed, modulus) ==
  CASE f = "koopman8p_with_modulus" -> koopman8p_with_modulus(data, seed, modulus)
    [] f = "koopman16p_with_modulus" -> koopman16p_with_modulus(data, seed, modulus)
    [] f = "koopman32p_with_modulus" -> koopman32p_with_modulus(data, seed, modulus)

\* the checksum of the original data
InitFlip ==
  /\ NoHasher /\ NoFrame
  /\ flips = {}
  /\ fn \in FlipFunctions
  /\ \E len \in 1..MaxFlipData, seed \in {0, 238}, m \in FlipModuli(fn) :
       \E data \in {generate_pattern(len)} :
         /\ args = [data |-> data, initial_seed |-> seed, modulus |-> m]
         /\ ret = parity_fn(fn, data, seed, m)
         /\ base = [data |-> data, ret |-> ret]

\* one more bit of the data is flipped and the checksum computed again
FlipOneBit ==
  \E bit_pos \in 0..(Len(args.data) * 8 - 1) :
    /\ bit_pos \notin flips
    /\ Cardinality(flips) < MaxFlips
    /\ flips' = flips \cup {bit_pos}
    /\ args' = [args EXCEPT !.data = flip_bit(@, bit_pos)]
    /\ ret' = parity_fn(fn, args'.data, args.initial_seed, args.modulus)
    /\ UNCHANGED <<fn, base, hvars, svars>>

NextFlip == FlipOneBit

SpecFlip == InitFlip /\ [][NextFlip]_vars

\* C30: flipping an odd number of distinct bits of non-empty data toggles bit
\* 0 of koopmanNp_with_modulus(data, seed, modulus), flipping an even number
\* leaves it as it was.
C30_OddFlipsToggleParity ==
  Bit0(fn, ret) = (Bit0(fn, base.ret) + Cardinality(flips)) % 2

\* three bits in two bytes flipped under a seed, and the checksum part changed too
C30_Witness ==
  /\ fn = "koopman16p_with_modulus"
  /\ args.initial_seed = 238
  /\ Cardinality(flips) = 3
  /\ \E p \in flips : p < 8
  /\ \E p \in flips : p >= 8
  /\ ret % 2 # base.ret % 2
  /\ ret \div 2 # base.ret \div 2

(***************************************************************************)
(* koopman8 and koopman16 run one loop iteration per step (SpecSteps)      *)
(***************************************************************************)

\* MAX_LEN_16: the longest data for which koopman16 detects all 1- and 2-bit errors
MAX_LEN_16 == 4092

\* main.rs: let mut a = [0; 4092]; a[0] = 0x80;
MessageA == [i \in 1..MAX_LEN_16 |-> IF i = 1 THEN 128 ELSE 0]
\* main.rs: let mut b = [0; 4092]; b[4091] = 1;
MessageB == [i \in 1..MAX_LEN_16 |-> IF i = MAX_LEN_16 THEN 1 ELSE 0]

\* a call: function, data, seed
CallOf(f, data, seed) == [fn |-> f, data |-> data, initial_seed |-> seed]

\* main: koopman16(&a, 0) and koopman16(&b, 0)
MainCalls == <<CallOf("koopman16", MessageA, 0), CallOf("koopman16", MessageB, 0)>>

\* the worked examples of the tests, and the empty input
ManualCalls ==
  { <<CallOf("koopman8", <<18, 52, 86>>, 0)>>,
    <<CallOf("koopman16", <<18, 52>>, 0)>>,
    <<CallOf("koopman8", <<>>, 0)>>,
    <<CallOf("koopman16", <<>>, 0)>> }

\* the width of the accumulator of the function f and its implicit zero bytes
StepWidth(f) == CASE f = "koopman8" -> W32 [] f = "koopman16" -> W64
StepZeros(f) == CASE f = "koopman8" -> 1 [] f = "koopman16" -> 2

InitSteps ==
  /\ NoHasher
  /\ fn = "none" /\ args = <<>> /\ ret = <<>> /\ base = <<>> /\ flips = {}
  /\ frame = Idle
  /\ pending \in {MainCalls} \cup ManualCalls

\* the caller makes its next call
StepCall ==
  /\ frame.pc = "idle" /\ pending # <<>>
  /\ fn' = Head(pending).fn
  /\ args' = [data |-> Head(pending).data, initial_seed |-> Head(pending).initial_seed]
  /\ pending' = Tail(pending)
  /\ frame' = [Idle EXCEPT !.pc = "entry"]
  /\ UNCHANGED <<ret, base, flips, hvars>>

\* if data.is_empty() { return 0; }  let mut sum = (data[0] ^ initial_seed) as uN;
StepEntry ==
  /\ frame.pc = "entry"
  /\ IF args.data = <<>>
       THEN /\ ret' = Append(ret, 0)
            /\ frame' = Idle
       ELSE /\ frame' = [pc |-> "loop",
                         sum |-> U(Xor8(args.data[1], args.initial_seed), StepWidth(fn)),
                         count |-> 0, i |-> 2, zeros |-> StepZeros(fn)]
            /\ ret' = ret
  /\ UNCHANGED <<fn, args, base, flips, pending, hvars>>

\* one iteration of `for &byte in &data[1..]`
StepByte ==
  /\ frame.pc = "loop" /\ frame.i <= Len(args.data)
  /\ frame' =
       CASE fn = "koopman8" ->
              [frame EXCEPT !.sum = HornerStep(@, args.data[frame.i], NONZERO_MODULUS_8),
                            !.i = @ + 1]
         [] fn = "koopman16" ->
              LET st == Koopman16Step(frame.sum, frame.count, args.data[frame.i])
              IN  [frame EXCEPT !.sum = st[1], !.count = st[2], !.i = @ + 1]
  /\ UNCHANGED <<fn, args, ret, base, flips, pending, hvars>>

\* the loop is over; koopman16: if count > 0 { sum = fast_mod_65519(sum as u32) as u64; }
StepLoopExit ==
  /\ frame.pc = "loop" /\ frame.i > Len(args.data)
  /\ frame' =
       IF fn = "koopman16" /\ frame.count > 0
         THEN [frame EXCEPT !.pc = "zeros",
                            !.sum = Cast(fast_mod_65519(AsU32(@)), W64)]
         ELSE [frame EXCEPT !.pc = "zeros"]
  /\ UNCHANGED <<fn, args, ret, base, flips, pending, hvars>>

\* an implicit zero byte is appended
StepAppendZero ==
  /\ frame.pc = "zeros" /\ frame.zeros > 0
  /\ frame' =
       CASE fn = "koopman8" ->
              [frame EXCEPT !.sum = Mod(Shl8(@), NONZERO_MODULUS_8), !.zeros = @ - 1]
         [] fn = "koopman16" ->
              [frame EXCEPT !.sum = Cast(fast_mod_65519(AsU32(Shl8(@))), W64),
                            !.zeros = @ - 1]
  /\ UNCHANGED <<fn, args, ret, base, flips, pending, hvars>>

\* sum as u8 / sum as u16
StepReturn ==
  /\ frame.pc = "zeros" /\ frame.zeros = 0
  /\ ret' = Append(ret, IF fn = "koopman8" THEN AsU8(frame.sum) ELSE AsU16(frame.sum))
  /\ frame' = Idle
  /\ UNCHANGED <<fn, args, base, flips, pending, hvars>>

NextSteps ==
  \/ StepCall \/ StepEntry \/ StepByte \/ StepLoopExit \/ StepAppendZero \/ StepReturn

SpecSteps == InitSteps /\ [][NextSteps]_vars

AtByte(i) == frame.pc = "loop" /\ frame.i = i
\* n implicit zero bytes are still to be appended
ZerosLeft(n) == frame.pc = "zeros" /\ frame.zeros = n

\* C15: koopman8([0x12, 0x34, 0x56], 0) passes through the sums 18, 106, 151
\* and returns 200; koopman16([0x12, 0x34], 0) passes through 4660, 13618 and
\* returns 13701.
C15_WorkedExamples ==
  /\ (fn = "koopman8" /\ args.data = <<18, 52, 86>>) =>
       /\ AtByte(2) => frame.sum = U(18, W32)
       /\ AtByte(3) => frame.sum = U(106, W32)
       /\ AtByte(4) => frame.sum = U(151, W32)
       /\ ZerosLeft(1) => frame.sum = U(151, W32)
       /\ ZerosLeft(0) => frame.sum = U(200, W32)
       /\ frame.pc = "idle" => ret = <<200>>
  /\ (fn = "koopman16" /\ args.data = <<18, 52>>) =>
       /\ AtByte(3) => frame.sum = U(4660, W64)
       /\ ZerosLeft(2) => frame.sum = U(4660, W64)
       /\ ZerosLeft(1) => frame.sum = U(13618, W64)
       /\ ZerosLeft(0) => frame.sum = U(13701, W64)
       /\ frame.pc = "idle" => ret = <<13701>>

\* koopman8 has returned from the three-byte example
C15_Witness ==
  /\ fn = "koopman8" /\ args.data = <<18, 52, 86>> /\ args.initial_seed = 0
  /\ frame = Idle /\ ret = <<200>>

(***************************************************************************)
(* The verification helpers applied to sampled inputs (SpecVerify)         *)
(***************************************************************************)

VerifyNames == {"verify8", "verify16", "verify32", "verify8p", "verify16p", "verify32p"}

\* the checksum function the helper f compares with
ChecksumOf(f, data, seed) ==
  CASE f = "verify8" -> koopman8(data, seed)
    [] f = "verify16" -> koopman16(data, seed)
    [] f = "verify32" -> koopman32(data, seed)
    [] f = "verify8p" -> koopman8p(data, seed)
    [] f = "verify16p" -> koopman16p(data, seed)
    [] f = "verify32p" -> koopman32p(data, seed)

\* cs.wrapping_add(1) at the width of the helper f
WrappingAdd1(f, cs) ==
  CASE f \in {"verify8", "verify8p"} -> (cs + 1) % 256
    [] f \in {"verify16", "verify16p"} -> (cs + 1) % Limb
    [] f \in {"verify32", "verify32p"} -> Add(cs, U(1, W32))

\* the expected values tried: the checksum, the checksum plus one, and the
\* smallest and the largest value of the type
ExpectedValues(f, data, seed) ==
  LET cs == ChecksumOf(f, data, seed)
  IN  {cs, WrappingAdd1(f, cs)}
        \cup CASE f \in {"verify8", "verify8p"} -> {0, 255}
               [] f \in {"verify16", "verify16p"} -> {0, Limb - 1}
               [] f \in {"verify32", "verify32p"} -> {U(0, W32), <<Limb - 1, Limb - 1>>}

\* the seeds of the tests and of the documentation examples, 0 and 0xee
VerifySeeds == {0, 238}

\* bound on the length of the data given to the helpers
MaxVerifyData == 4

InitVerify ==
  /\ NoHasher /\ NoFrame
  /\ fn = "none" /\ ret = <<>> /\ base = <<>> /\ flips = {}
  /\ args \in [data : SeqsUpTo(MaxVerifyData), initial_seed : VerifySeeds, expected : {<<>>}]

\* a call of the helper f with the expected value e that returns v
Verifies(f, e, v) ==
  /\ fn = "none"
  /\ fn' = f
  /\ args' = [args EXCEPT !.expected = e]
  /\ ret' = v
  /\ UNCHANGED <<base, flips, hvars, svars>>

Call_verify8 ==
  \E e \in ExpectedValues("verify8", args.data, args.initial_seed) :
    Verifies("verify8", e, verify8(args.data, e, args.initial_seed))

Call_verify16 ==
  \E e \in ExpectedValues("verify16", args.data, args.initial_seed) :
    Verifies("verify16", e, verify16(args.data, e, args.initial_seed))

Call_verify32 ==
  \E e \in ExpectedValues("verify32", args.data, args.initial_seed) :
    Verifies("verify32", e, verify32(args.data, e, args.initial_seed))

Call_verify8p ==
  \E e \in ExpectedValues("verify8p", args.data, args.initial_seed) :
    Verifies("verify8p", e, verify8p(args.data, e, args.initial_seed))

Call_verify16p ==
  \E e \in ExpectedValues("verify16p", args.data, args.initial_seed) :
    Verifies("verify16p", e, verify16p(args.data, e, args.initial_seed))

Call_verify32p ==
  \E e \in ExpectedValues("verify32p", args.data, args.initial_seed) :
    Verifies("verify32p", e, verify32p(args.data, e, args.initial_seed))

NextVerify ==
  \/ Call_verify8 \/ Call_verify16 \/ Call_verify32
  \/ Call_verify8p \/ Call_verify16p \/ Call_verify32p

SpecVerify == InitVerify /\ [][NextVerify]_vars

\* C18: verifyN(data, expected, seed) is true exactly when expected is
\* koopmanN(data, seed), and verifyNp likewise with koopmanNp: true for the
\* checksum itself, false for any other expected value.
C18_VerifyIffChecksum ==
  fn \in VerifyNames =>
    /\ ret \in BOOLEAN
    /\ ret <=> (args.expected = ChecksumOf(fn, args.data, args.initial_seed))

\* verify16p refuses the checksum plus one of MaxVerifyData bytes
C18_Witness ==
  /\ fn = "verify16p" /\ Len(args.data) = MaxVerifyData /\ args.initial_seed = 238
  /\ args.expected = (koopman16p(args.data, args.initial_seed) + 1) % Limb
  /\ ret = FALSE

(***************************************************************************)
(* The _with_modulus functions given a modulus above 2^N (SpecRange)       *)
(***************************************************************************)

\* x + y leaves the width of x: the addition panics in a build with overflow
\* checks and wraps in one without
AddOverflows(x, y) ==
  Add(Cast(x, Len(x) + 1), Cast(y, Len(x) + 1))[Len(x) + 1] # 0

\* some (sum << 8) + byte of the loop overflows; the shift itself drops the
\* high bits in every build, and % modulus cannot fault for a non-zero modulus
RECURSIVE HornerOverflows(_, _, _, _)
HornerOverflows(sum, data, i, modulus) ==
  IF Eval(sum) /\ i > Len(data) THEN FALSE
  ELSE \/ AddOverflows(Shl8(sum), U(data[i], Len(sum)))
       \/ HornerOverflows(HornerStep(sum, data[i], modulus), data, i + 1, modulus)

\* a call of koopmanN_with_modulus can panic; width is that of its accumulator
WithModulusPanics(data, initial_seed, modulus, width) ==
  /\ data # <<>>
  /\ HornerOverflows(U(Xor8(data[1], initial_seed), width), data, 2, modulus)

\* moduli above 2^N: 2^N + 1, the largest of the parameter's type, and one between
RangeModuli(f) ==
  CASE f = "koopman8_with_modulus" -> {U(257, W32), <<0, 1>>, <<Limb - 1, Limb - 1>>}
    [] f = "koopman16_with_modulus" -> {<<1, 1>>, <<0, Limb \div 2>>, <<Limb - 1, Limb - 1>>}
    [] f = "koopman32_with_modulus" ->
         {<<1, 0, 1, 0>>, <<0, 0, 0, 1>>, <<Limb - 1, Limb - 1, Limb - 1, Limb - 1>>}

\* bound on the length of the data
MaxRangeData == 3

InitRange ==
  /\ NoHasher /\ NoFrame
  /\ fn = "none" /\ ret = <<>> /\ base = <<>> /\ flips = {}
  /\ args \in [data : SeqsUpTo(MaxRangeData), initial_seed : Seeds, modulus : {<<>>}]

\* a call of f with the modulus m: it panics or returns v
PanicsOrReturns(f, m, panics, v) ==
  /\ fn = "none"
  /\ fn' = f
  /\ args' = [args EXCEPT !.modulus = m]
  /\ base' = [panicked |-> panics]
  /\ ret' = IF panics THEN <<>> ELSE v
  /\ UNCHANGED <<flips, hvars, svars>>

Range_koopman8_with_modulus ==
  \E m \in RangeModuli("koopman8_with_modulus") :
    PanicsOrReturns("koopman8_with_modulus", m,
                    WithModulusPanics(args.data, args.initial_seed, m, W32),
                    koopman8_with_modulus(args.data, args.initial_seed, m))

Range_koopman16_with_modulus ==
  \E m \in RangeModuli("koopman16_with_modulus") :
    PanicsOrReturns("koopman16_with_modulus", m,
                    WithModulusPanics(args.data, args.initial_seed, m, W32),
                    koopman16_with_modulus(args.data, args.initial_seed, m))

Range_koopman32_with_modulus ==
  \E m \in RangeModuli("koopman32_with_modulus") :
    PanicsOrReturns("koopman32_with_modulus", m,
                    WithModulusPanics(args.data, args.initial_seed, m, W64),
                    koopman32_with_modulus(args.data, args.initial_seed, m))

NextRange ==
  \/ Range_koopman8_with_modulus
  \/ Range_koopman16_with_modulus
  \/ Range_koopman32_with_modulus

SpecRange == InitRange /\ [][NextRange]_vars

\* C19: a call of koopmanN_with_modulus on some bytes with a modulus larger
\* than 2^N ends in a panic and never returns a checksum.
C19_OutOfRangeModulusPanics ==
  (fn # "none" /\ args.data # <<>>) => base.panicked

(***************************************************************************)
(* Two hashers used side by side (specification SpecPair): h, live,        *)
(* result, ctor and fed hold one entry per hasher, arg the hasher the last *)
(* operation was called on                                                 *)
(***************************************************************************)

MaxPairLen == 2

Hashers == {1, 2}

\* the chunks fed to the two hashers
PairChunks == {q \in SeqsUpTo(MaxPairLen) : \A k \in 1..Len(q) : q[k] \in {1, 255}}

\* the hashers are built with a seed, one of each type
PairCtors == {c \in Ctors : c.fn = "with_seed" /\ c.seed = 238}

InitPair ==
  \E c1 \in PairCtors, c2 \in PairCtors :
    /\ NoCall /\ NoFrame
    /\ h = <<Construct(c1), Construct(c2)>>
    /\ ctor = <<c1, c2>>
    /\ live = <<TRUE, TRUE>>
    /\ result = <<<<>>, <<>>>>
    /\ fed = <<<<>>, <<>>>>
    /\ hist = "new"
    /\ op = "ctor"
    /\ arg = 0

PairUpdate ==
  \E i \in Hashers, data \in PairChunks :
    /\ live[i]
    /\ Len(fed[i]) + Len(data) <= MaxPairLen
    /\ h' = [h EXCEPT ![i] = IF @.name \in PlainNames THEN update(@, data)
                                                       ELSE parity_update(@, data)]
    /\ fed' = [fed EXCEPT ![i] = @ \o data]
    /\ op' = "update"
    /\ arg' = i
    /\ UNCHANGED <<live, result, ctor, hist, cvars, svars>>

PairReset ==
  \E i \in Hashers :
    /\ live[i]
    /\ h' = [h EXCEPT ![i] = IF @.name \in PlainNames THEN reset(@) ELSE parity_reset(@)]
    /\ fed' = [fed EXCEPT ![i] = <<>>]
    /\ op' = "reset"
    /\ arg' = i
    /\ UNCHANGED <<live, result, ctor, hist, cvars, svars>>

PairFinalize ==
  \E i \in Hashers :
    /\ live[i]
    /\ result' = [result EXCEPT ![i] = IF h[i].name \in PlainNames THEN finalize(h[i])
                                                                     ELSE parity_finalize(h[i])]
    /\ live' = [live EXCEPT ![i] = FALSE]
    /\ op' = "finalize"
    /\ arg' = i
    /\ UNCHANGED <<h, ctor, fed, hist, cvars, svars>>

NextPair == PairUpdate \/ PairReset \/ PairFinalize

SpecPair == InitPair /\ [][NextPair]_vars

\* C21: however the update, reset and finalize calls on two hashers are
\* interleaved, an operation on one hasher changes no field of the other (nor
\* its consumed state or result), and the value a hasher's finalize returns is
\* the one-shot checksum of the bytes fed to that hasher alone.
C21_HashersIndependent ==
  [][\A i \in Hashers :
       /\ arg' # i => h'[i] = h[i] /\ live'[i] = live[i] /\ result'[i] = result[i]
       /\ ~live'[i] => result'[i] = OneShot(ctor[i].name, fed'[i], ctor[i].seed)]_vars

\* both hashers were fed different bytes, the calls interleaved, and both
\* were finalized
C21_Witness ==
  /\ op = "finalize"
  /\ ~live[1] /\ ~live[2]
  /\ Len(fed[1]) = MaxPairLen /\ Len(fed[2]) = MaxPairLen
  /\ fed[1] # fed[2]
  /\ ctor[1].name = "Koopman16" /\ ctor[2].name = "Koopman8P"
  /\ result[1] # 0 /\ result[2] # 0

(***************************************************************************)
(* The accumulator, step by step (specification SpecLoops): a behaviour is *)
(* either a hasher receiving update, reset and finalize, or a call of a    *)
(* one-shot function that runs one loop iteration per step.  frame holds   *)
(* the locals of the call, base the last value that went through an        *)
(* `as u32` cast into fast_mod_65519.                                      *)
(***************************************************************************)

MaxLoopData == 5

\* the data of the calls
LoopData ==
  {q \in SeqsUpTo(MaxLoopData) : q # <<>> /\ \A k \in 1..Len(q) : q[k] \in {0, 1, 255}}

LoopFunctions ==
  {"koopman8_with_modulus", "koopman16", "koopman16_with_modulus", "koopman32",
   "koopman32_with_modulus", "koopman8p_with_modulus", "koopman16p_with_modulus",
   "koopman32p_with_modulus"}

\* the hasher type of the same width and flavour
LoopName(f) ==
  CASE f = "koopman8_with_modulus" -> "Koopman8"
    [] f \in {"koopman16", "koopman16_with_modulus"} -> "Koopman16"
    [] f \in {"koopman32", "koopman32_with_modulus"} -> "Koopman32"
    [] f = "koopman8p_with_modulus" -> "Koopman8P"
    [] f = "koopman16p_with_modulus" -> "Koopman16P"
    [] f = "koopman32p_with_modulus" -> "Koopman32P"

\* let mut sum: u32 / u64
LoopWidth(f) ==
  IF f \in {"koopman16", "koopman32", "koopman32_with_modulus", "koopman32p_with_modulus"}
    THEN W64 ELSE W32

\* the modulus argument; the fixed modulus of koopman16 and koopman32
LoopModuli(f) ==
  CASE f = "koopman16" -> {U(MODULUS_16, W64)}
    [] f = "koopman32" -> {MODULUS_32}
    [] OTHER -> Moduli(LoopName(f))

NoCast == [cast |-> <<>>, passed |-> <<>>]

\* sum as u32, handed to fast_mod_65519
CastOf(sum) == [cast |-> sum, passed |-> AsU32(sum)]

\* the state after `let mut sum = (data[0] ^ initial_seed) as uN`
InitLoops ==
  /\ NoHasher
  /\ pending = <<>> /\ ret = <<>> /\ flips = {} /\ base = NoCast
  /\ fn \in LoopFunctions
  /\ \E data \in LoopData, seed \in {0, 238}, m \in LoopModuli(fn) :
       /\ args = [data |-> data, initial_seed |-> seed, modulus |-> m]
       /\ frame = [pc |-> "loop",
                   sum |-> U(Xor8(data[1], seed), LoopWidth(fn)),
                   psum |-> IF LoopName(fn) \in ParityNames THEN Xor8(data[1], seed) ELSE 0,
                   count |-> 0, i |-> 2, zeros |-> FinalizeShifts(LoopName(fn))]

\* one iteration of `for &byte in &data[1..]`
LoopByte ==
  /\ frame.pc = "loop" /\ frame.i <= Len(args.data)
  /\ LET byte == args.data[frame.i]
         s == Add(Shl8(frame.sum), U(byte, Len(frame.sum)))
     IN  CASE fn = "koopman16" ->
                LET st == Koopman16Step(frame.sum, frame.count, byte)
                IN  /\ frame' = [frame EXCEPT !.sum = st[1], !.count = st[2], !.i = @ + 1]
                    /\ base' = IF st[2] = 0 THEN CastOf(s) ELSE base
           [] fn = "koopman32" ->
                /\ frame' = [frame EXCEPT !.sum = fast_mod_4294967291(s), !.i = @ + 1]
                /\ base' = base
           [] OTHER ->
                /\ frame' = [frame EXCEPT !.sum = HornerStep(@, byte, args.modulus),
                                          !.psum = IF LoopName(fn) \in ParityNames
                                                     THEN Xor8(@, byte) ELSE @,
                                          !.i = @ + 1]
                /\ base' = base
  /\ UNCHANGED <<fn, args, ret, flips, pending, hvars>>

\* the loop is over; koopman16: if count > 0 { sum = fast_mod_65519(sum as u32) as u64; }
LoopExit ==
  /\ frame.pc = "loop" /\ frame.i > Len(args.data)
  /\ IF fn = "koopman16" /\ frame.count > 0
       THEN /\ frame' = [frame EXCEPT !.pc = "zeros", !.count = 0,
                                      !.sum = Cast(fast_mod_65519(AsU32(@)), W64)]
            /\ base' = CastOf(frame.sum)
       ELSE /\ frame' = [frame EXCEPT !.pc = "zeros"]
            /\ base' = base
  /\ UNCHANGED <<fn, args, ret, flips, pending, hvars>>

\* an implicit zero byte is appended
LoopZero ==
  /\ frame.pc = "zeros" /\ frame.zeros > 0
  /\ CASE fn = "koopman16" ->
            /\ frame' = [frame EXCEPT !.sum = Cast(fast_mod_65519(AsU32(Shl8(@))), W64),
                                      !.zeros = @ - 1]
            /\ base' = CastOf(Shl8(frame.sum))
       [] fn = "koopman32" ->
            /\ frame' = [frame EXCEPT !.sum = fast_mod_4294967291(Shl8(@)), !.zeros = @ - 1]
            /\ base' = base
       [] OTHER ->
            /\ frame' = [frame EXCEPT !.sum = AppendZeros(@, 1, args.modulus),
                                      !.zeros = @ - 1]
            /\ base' = base
  /\ UNCHANGED <<fn, args, ret, flips, pending, hvars>>

\* sum as uN; the parity variants pack the parity bit below it
LoopReturn ==
  /\ frame.pc = "zeros" /\ frame.zeros = 0
  /\ ret' = IF LoopName(fn) \in ParityNames
              THEN Pack(LoopName(fn), frame.sum, frame.psum)
              ELSE AsOutput(LoopName(fn), frame.sum)
  /\ frame' = [frame EXCEPT !.pc = "done"]
  /\ UNCHANGED <<fn, args, base, flips, pending, hvars>>

NextLoops ==
  \/ Update \/ Reset \/ Finalize
  \/ LoopByte \/ LoopExit \/ LoopZero \/ LoopReturn

SpecLoops == (Init \/ InitLoops) /\ [][NextLoops]_vars

Leq(x, y) == ~Lt(y, x)

\* max(256, modulus)
Max256(modulus) ==
  IF Lt(modulus, U(256, Len(modulus))) THEN U(256, Len(modulus)) ELSE modulus

\* (sum << 8) + byte loses no bit in the type of sum: the top byte of sum is
\* zero, and the low byte of sum << 8 is zero so the addition never carries
ShiftAddFits(sum) == sum[Len(sum)] < 256

OneStepMax == U((MODULUS_16 - 1) * 256 + 255, W32)

\* (65519 - 1) << 16 + 0xFFFF = 4,293,918,719: two such steps without a reduction
TwoStepMax == Add(Shl8(OneStepMax), U(255, W32))

\* the values update hands to the fast reduction, one for each byte of data
\* but the byte that is XORed into the seed
UpdatePasses(self, data) ==
  {Add(Shl8(update(self, SubSeq(data, 1, k - 1)).sum), U(data[k], Len(self.sum))) :
     k \in {j \in 1..Len(data) : update(self, SubSeq(data, 1, j - 1)).initialized}}

\* the values finalize hands to the fast reduction of Koopman16
FinalizePasses(self) ==
  IF ~self.initialized THEN {}
  ELSE {Shl8(self.sum), Shl8(fast_mod_65519(Shl8(self.sum)))}

\* every value a step of a Koopman16 hasher on the fast path passes to
\* fast_mod_65519 is at most bound
HasherPassesWithin(bound) ==
  (live /\ h.name = "Koopman16" /\ h.use_fast_mod)
    => /\ (live' /\ op' = "update") => \A x \in UpdatePasses(h, arg') : Leq(x, bound)
       /\ (~live') => \A x \in FinalizePasses(h) : Leq(x, bound)

\* the value a step of the one-shot koopman16 passes to fast_mod_65519 is at
\* most bound
OneShotPassesWithin(bound) ==
  (fn = "koopman16" /\ base'.passed # <<>>) => Leq(base'.passed, bound)

RangeOf(f) ==
  CASE LoopName(f) \in {"Koopman8", "Koopman8P"} -> U(256, LoopWidth(f))
    [] LoopName(f) \in {"Koopman16", "Koopman16P"} -> U(Limb, LoopWidth(f))
    [] LoopName(f) \in {"Koopman32", "Koopman32P"} -> Pow32
HalfRangeOf(f) ==
  CASE LoopName(f) = "Koopman8P" -> U(128, W32)
    [] LoopName(f) = "Koopman16P" -> U(32768, W32)
    [] LoopName(f) = "Koopman32P" -> Pow31

\* the returned value in the accumulator type of the function f
Widened(f, v) ==
  IF LoopName(f) \in {"Koopman32", "Koopman32P"} THEN Cast(v, W64) ELSE U(v, LoopWidth(f))

\* C28: with a modulus m of at most 2^N, koopmanN_with_modulus (and koopman16,
\* koopman32 with their own modulus) return a value below m; in the parity
\* variants with m of at most 2^(N-1) the reduced sum is below 2^(N-1), so
\* the packed result is exactly 2 * sum + parity and is below 2^N.
C28_OutputRange ==
  (fn # "none" /\ frame.pc = "done")
    => IF LoopName(fn) \in PlainNames
         THEN Lt(Widened(fn, ret), args.modulus)
         ELSE /\ Lt(frame.sum, HalfRangeOf(fn))
              /\ Widened(fn, ret) = Add(Shl1(frame.sum), U(parity8(frame.psum), LoopWidth(fn)))
              /\ Lt(Add(Shl1(frame.sum), U(parity8(frame.psum), LoopWidth(fn))), RangeOf(fn))

\* koopman16p_with_modulus returned a packed value with the top bit and the
\* parity bit set
C28_Witness ==
  /\ fn = "koopman16p_with_modulus" /\ frame.pc = "done"
  /\ args.modulus = U(32767, W32)
  /\ ret >= 32768
  /\ ret % 2 = 1

(***************************************************************************)
(* The reference of tests/reference_comparison.rs (specification SpecRef)  *)
(***************************************************************************)

MaxRefData == 4

\* sum << 16 on a u32
Shl16(x) == Shl8(Shl8(x))

\* fn parity(x: u8) -> u8 { (x.count_ones() & 1) as u8 }
parity(x) == count_ones(x) % 2

\* psum ^= byte as u32, over data[i..]; psum stays below 256
RECURSIVE ReferenceParityLoop(_, _, _)
ReferenceParityLoop(psum, data, i) ==
  IF Eval(psum) /\ i > Len(data) THEN psum
  ELSE ReferenceParityLoop(XorByte(psum, data[i]), data, i + 1)

\* reference_koopman16p with only one implicit zero byte
reference_koopman16p_one_zero_byte(data, initial_seed, modulus) ==
  IF data = <<>> THEN 0
  ELSE LET sum0 == U(Xor8(initial_seed, data[1]), W32)
           sum1 == HornerLoop(sum0, data, 2, modulus)
           psum == ReferenceParityLoop(sum0, data, 2)
           sum2 == Mod(Shl8(sum1), modulus)
           packed == Add(Shl1(sum2), U(parity(AsU8(psum)), W32))
       IN  AsU16(packed)

\* fn reference_koopman16p: one (sum << 16) % modulus, a 32-bit psum
reference_koopman16p(data, initial_seed, modulus) ==
  IF data = <<>> THEN 0
  ELSE LET sum0 == U(Xor8(initial_seed, data[1]), W32)
           sum1 == HornerLoop(sum0, data, 2, modulus)
           psum == ReferenceParityLoop(sum0, data, 2)
           sum2 == Mod(Shl16(sum1), modulus)
           packed == Add(Shl1(sum2), U(parity(AsU8(psum)), W32))
       IN  AsU16(packed)

\* the arguments: a sum below 65536, or data and a seed
InitRef ==
  /\ NoHasher /\ NoFrame
  /\ fn = "none" /\ ret = <<>> /\ base = <<>> /\ flips = {}
  /\ \/ \E sum \in 0..(Limb - 1) : args = [sum |-> sum]
     \/ \E data \in SeqsUpTo(MaxRefData), seed \in Seeds :
          args = [data |-> data, initial_seed |-> seed]

\* test_finalization_equivalence: single_shift and double_shift of one sum
Call_finalization_equivalence ==
  /\ fn = "none" /\ "sum" \in DOMAIN args
  /\ fn' = "test_finalization_equivalence"
  /\ LET sum == U(args.sum, W32)
         tmp == Mod(Shl8(sum), U(MODULUS_16, W32))
     IN  ret' = [single_shift |-> Mod(Shl16(sum), U(MODULUS_16, W32)),
                 double_shift |-> Mod(Shl8(tmp), U(MODULUS_16, W32))]
  /\ UNCHANGED <<args, base, flips, hvars, svars>>

\* test_koopman16p_vs_reference: reference and implementation on one input
Call_koopman16p_vs_reference ==
  /\ fn = "none" /\ "data" \in DOMAIN args
  /\ fn' = "test_koopman16p_vs_reference"
  /\ ret' = [reference |-> reference_koopman16p(args.data, args.initial_seed,
                                                U(MODULUS_15P, W32)),
             implementation |-> koopman16p(args.data, args.initial_seed)]
  /\ UNCHANGED <<args, base, flips, hvars, svars>>

NextRef == Call_finalization_equivalence \/ Call_koopman16p_vs_reference

SpecRef == InitRef /\ [][NextRef]_vars

\* C27: for every sum below 65536, (sum << 16) mod 65519 is
\* (((sum << 8) mod 65519) << 8) mod 65519; and for every non-empty data and
\* seed, koopman16p returns what the reference returns, which finalizes with
\* one (sum << 16) mod 32749 and keeps the parity in a 32-bit psum.
C27_FinalizationEquivalence ==
  /\ (fn = "test_finalization_equivalence") => (ret.single_shift = ret.double_shift)
  /\ (fn = "test_koopman16p_vs_reference" /\ args.data # <<>>)
       => (ret.reference = ret.implementation)

\* the reference agreed with koopman16p on a seeded input of several bytes
\* with a set parity bit
C27_Witness ==
  /\ fn = "test_koopman16p_vs_reference"
  /\ args.data = <<255, 1, 128, 1>> /\ args.initial_seed = 238
  /\ ret.implementation > 1
  /\ ret.implementation % 2 = 1

====
